---- MODULE Spec2Model ----
(***************************************************************************)
(* Model of the service layer of the micro-blogging backend (My_X/app):    *)
(* TweetServices and UserServices over the repositories and the tables of  *)
(* database/models/models.py.  Every request is a coroutine; a step of the *)
(* model is the code between two awaits on the storage session.            *)
(***************************************************************************)
EXTENDS Integers, Sequences, FiniteSets, Bags, TLC

\* ---------------------------------------------------------------- bounds
\* tweets and media rows created in a run of the media lifecycle (Spec)
MaxTweets == 2
MaxMedia == 2
\* tweets created in a run of concurrent likes (SpecLikes)
MaxLikedTweets == 2
\* tweets created in a run of the feed over the follow graph (SpecFeed)
MaxFeedTweets == 2
\* tweets created in a run of the ranked feed (SpecRank)
MaxRankedTweets == 3
\* tweets created, and the largest limit and page asked, in a run of the paged
\* feed (SpecPage)
MaxPagedTweets == 3
MaxLimit == 2
MaxPage == 2
\* tweets created in a run of follows, likes and profiles (SpecUsers)
MaxProfileTweets == 1
\* tweets and media rows created in a run of concurrent deletion (SpecRace)
MaxRaceTweets == 2
MaxRaceMedia == 1
\* tweets and media rows created in a run of the single lookups (SpecLookups)
MaxLookupTweets == 2
MaxLookupMedia == 1

\* ------------------------------------------------------- fixed vocabulary
\* rows of the users table (no operation of the service creates a user)
Users == {1, 2, 3}
\* request slots: coroutines that may be in flight at the same time
Procs == {1, 2}
\* Optional[int]: None is the empty tuple, a value n is <<n>>
None == <<>>
Some(n) == <<n>>
\* file names a client may send; NoName is UploadFile.filename = None
NoName == "<none>"
\* settings.UPL_DIR and settings.SAVE_PATH, as lists of path segments
UPL_DIR == <<"upload">>
SAVE_PATH == <<"static", "images">>

VARIABLES
    tweets,       \* table tweets: rows [id, user_id, created_at]
    tweet_seq,    \* last value of the tweets.id autoincrement sequence
    media,        \* table media: rows [id, user_id, file_path]
    media_seq,    \* last value of the media.id autoincrement sequence
    tweet_media,  \* table tweet_media: rows [tweet_id, media_id]
    likes,        \* table likes: a bag of rows [tweet_id, user_id]
    followers,    \* table followers: a bag of rows [follower_id, followee_id]
    files,        \* paths of the files present in the upload directory
    now,          \* the value func.now() returns
    rq            \* per slot: the request in flight, its position and locals

tables == <<tweets, tweet_seq, media, media_seq, tweet_media, likes, followers>>
store == <<tables, files>>
vars == <<tweets, tweet_seq, media, media_seq, tweet_media, likes, followers,
          files, now, rq>>

\* get_session: `async with async_session() as session: yield session`. Every
\* call of async_session() constructs a new AsyncSession; the one constructed
\* for the request of slot p is open until the `async with` block is left
async_session(p) == <<"AsyncSession", p>>

Idle == [op |-> "none", pc |-> "idle", session |-> None]

Init ==
    /\ tweets = {}
    /\ tweet_seq = 0
    /\ media = {}
    /\ media_seq = 0
    /\ tweet_media = {}
    /\ likes = EmptyBag
    /\ followers = EmptyBag
    /\ files = {}
    /\ now = 0
    /\ rq = [p \in Procs |-> Idle]

\* ------------------------------------------------------------ responses
\* what the service call ends with: a returned dict, an HTTPException with
\* its status_code, or another exception that escapes the service
Returned(body) == [exc |-> "none", status |-> 200, body |-> body]
HTTPException(code) == [exc |-> "HTTPException", status |-> code, body |-> <<>>]
Raised(name) == [exc |-> name, status |-> 0, body |-> <<>>]

\* a slot is free when no request is running in it
Free(p) == rq[p].pc \in {"idle", "done"}

\* a handler that leaves the session open when the service raises
Finish_leak(p, res) ==
    rq' = [rq EXCEPT ![p] = [op |-> rq[p].op, pc |-> "done", user |-> rq[p].user,
                             arg |-> rq[p].arg, loc |-> <<>>, res |-> res,
                             session |-> IF res.exc = "none" THEN None
                                         ELSE rq[p].session]]
\* the handler returns or raises: the `async with` block of get_session is
\* left and the session is closed
Finish(p, res) ==
    rq' = [rq EXCEPT ![p] = [op |-> rq[p].op, pc |-> "done", user |-> rq[p].user,
                             arg |-> rq[p].arg, loc |-> <<>>, res |-> res,
                             session |-> None]]
FinishWith(p, loc, res) ==
    rq' = [rq EXCEPT ![p] = [op |-> rq[p].op, pc |-> "done", user |-> rq[p].user,
                             arg |-> rq[p].arg, loc |-> loc, res |-> res,
                             session |-> None]]
Goto(p, pc, loc) ==
    rq' = [rq EXCEPT ![p] = [op |-> rq[p].op, pc |-> pc, user |-> rq[p].user,
                             arg |-> rq[p].arg, loc |-> loc,
                             session |-> rq[p].session]]
\* a request arrives: its dependencies are resolved, a session among them
Begin(p, op, pc, user, arg) ==
    /\ Free(p)
    /\ rq' = [rq EXCEPT ![p] = [op |-> op, pc |-> pc, user |-> user,
                               arg |-> arg, loc |-> <<>>,
                               session |-> async_session(p)]]
    /\ UNCHANGED <<store, now>>
At(p, op, pc) == rq[p].op = op /\ rq[p].pc = pc

\* ------------------------------------------------- storage constraints
\* UniqueConstraint("tweet_id", "user_id", name="unique_like_tweet")
unique_like_tweet_off(rows, row) == TRUE
unique_like_tweet(rows, row) == ~BagIn(row, rows)
\* UniqueConstraint("follower_id", "followee_id", name="unique_follower_followee")
unique_follower_followee_off(rows, row) == TRUE
unique_follower_followee(rows, row) == ~BagIn(row, rows)
\* ForeignKey("tweets.id")
fk_tweet(tweet_id) == \E t \in tweets : t.id = tweet_id
\* ForeignKey("media.id")
fk_media(media_id) == \E m \in media : m.id = media_id

\* ------------------------------------------------------------ TweetRepository
\* TweetRepository.get_by_id: scalar_one_or_none over the primary key
get_by_id(tweet_id) == {t \in tweets : t.id = tweet_id}

\* LikeRepository.filter(tweet_id=, user_id=): scalar_one_or_none; the rows
\* that match (the caller only tests the result for truth)
LikeFilter(tweet_id, user_id) ==
    CopiesIn([tweet_id |-> tweet_id, user_id |-> user_id], likes)

\* ------------------------------------------------------------ add_like
StartAddLike(p, u, id) == Begin(p, "add_like", "get_by_id", u, id)

AddLikeGetById_nocheck(p) ==
    /\ At(p, "add_like", "get_by_id")
    /\ Goto(p, "filter", <<>>)
    /\ UNCHANGED <<store, now>>

AddLikeGetById(p) ==
    /\ At(p, "add_like", "get_by_id")
    /\ IF get_by_id(rq[p].arg) = {}
       THEN Finish(p, HTTPException(404))
       ELSE Goto(p, "filter", <<>>)
    /\ UNCHANGED <<store, now>>

AddLikeFilter_nocheck(p) ==
    /\ At(p, "add_like", "filter")
    /\ Goto(p, "add", <<>>)
    /\ UNCHANGED <<store, now>>

AddLikeFilter(p) ==
    /\ At(p, "add_like", "filter")
    /\ CASE LikeFilter(rq[p].arg, rq[p].user) > 1 ->
              Finish(p, Raised("MultipleResultsFound"))
         [] LikeFilter(rq[p].arg, rq[p].user) = 1 ->
              Finish(p, HTTPException(409))
         [] OTHER -> Goto(p, "add", <<>>)
    /\ UNCHANGED <<store, now>>

\* LikeRepository.add: session.add and commit, the INSERT checked by the
\* foreign key on tweets and by unique_like_tweet
AddLikeAdd(p) ==
    /\ At(p, "add_like", "add")
    /\ LET row == [tweet_id |-> rq[p].arg, user_id |-> rq[p].user] IN
       IF fk_tweet(row.tweet_id) /\ unique_like_tweet(likes, row)
       THEN /\ likes' = likes (+) SetToBag({row})
            /\ Finish(p, Returned([result |-> TRUE]))
       ELSE /\ likes' = likes
            /\ Finish(p, Raised("IntegrityError"))
    /\ UNCHANGED <<tweets, tweet_seq, media, media_seq, tweet_media, followers,
                   files, now>>

\* ------------------------------------------------------------ del_like
StartDelLike(p, u, id) == Begin(p, "del_like", "get_by_id", u, id)

DelLikeGetById(p) ==
    /\ At(p, "del_like", "get_by_id")
    /\ IF get_by_id(rq[p].arg) = {}
       THEN Finish(p, HTTPException(404))
       ELSE Goto(p, "filter", <<>>)
    /\ UNCHANGED <<store, now>>

DelLikeFilter_nocheck(p) ==
    /\ At(p, "del_like", "filter")
    /\ Goto(p, "delete", <<>>)
    /\ UNCHANGED <<store, now>>

DelLikeFilter(p) ==
    /\ At(p, "del_like", "filter")
    /\ CASE LikeFilter(rq[p].arg, rq[p].user) > 1 ->
              Finish(p, Raised("MultipleResultsFound"))
         [] LikeFilter(rq[p].arg, rq[p].user) = 0 ->
              Finish(p, HTTPException(404))
         [] OTHER -> Goto(p, "delete", <<>>)
    /\ UNCHANGED <<store, now>>

\* LikeRepository.delete: session.delete and commit; a DELETE that matches no
\* row (the row went away meanwhile) only warns
DelLikeDelete(p) ==
    /\ At(p, "del_like", "delete")
    /\ likes' = likes (-) SetToBag({[tweet_id |-> rq[p].arg, user_id |-> rq[p].user]})
    /\ Finish(p, Returned([result |-> TRUE]))
    /\ UNCHANGED <<tweets, tweet_seq, media, media_seq, tweet_media, followers,
                   files, now>>

\* ------------------------------------------------------------ add_new_tweet
Range(s) == {s[i] : i \in DOMAIN s}
\* requests that have not yet drawn the identifier they will consume
Pending(op, pcs) == Cardinality({q \in Procs : rq[q].op = op /\ rq[q].pc \in pcs})

\* `if tweet.tweet_media_ids:` is false for None and for the empty list
Truthy(ids) == ids # None /\ ids[1] # <<>>

\* MediaRepository.filter(custom_filters=[Media.id.in_(ids), Media.user_id == user])
MediaFilter_anyowner(ids, user) == {m \in media : m.id \in Range(ids)}
MediaFilter(ids, user) == {m \in media : m.id \in Range(ids) /\ m.user_id = user}

\* `len(media_files) != len(tweet.tweet_media_ids)`
CountsDiffer(media_files, ids) == Cardinality(media_files) # Len(ids)

StartAddNewTweet(p, u, ids) ==
    Begin(p, "add_new_tweet", IF Truthy(ids) THEN "media_filter" ELSE "add", u, ids)

AddNewTweetMediaFilter(p) ==
    /\ At(p, "add_new_tweet", "media_filter")
    /\ LET media_files == MediaFilter(rq[p].arg[1], rq[p].user) IN
       IF CountsDiffer(media_files, rq[p].arg[1])
       THEN Finish(p, HTTPException(400))
       ELSE Goto(p, "add", [media_files |-> media_files])
    /\ UNCHANGED <<store, now>>

\* TweetRepository.add: INSERT, commit and refresh (the new id is read back)
AddNewTweetAdd(p) ==
    /\ At(p, "add_new_tweet", "add")
    /\ tweet_seq' = tweet_seq + 1
    /\ tweets' = tweets \cup {[id |-> tweet_seq', user_id |-> rq[p].user,
                               created_at |-> now]}
    /\ IF Truthy(rq[p].arg)
       THEN Goto(p, "add_all", [media_files |-> rq[p].loc.media_files,
                                tweet_id |-> tweet_seq'])
       ELSE Finish(p, Returned([result |-> TRUE, tweet_id |-> tweet_seq']))
    /\ UNCHANGED <<media, media_seq, tweet_media, likes, followers, files, now>>

\* TweetMediaRepository.add_all: one INSERT per entry, one commit
AddNewTweetAddAll(p) ==
    /\ At(p, "add_new_tweet", "add_all")
    /\ LET rows == {[tweet_id |-> rq[p].loc.tweet_id, media_id |-> m.id] :
                        m \in rq[p].loc.media_files} IN
       IF /\ fk_tweet(rq[p].loc.tweet_id)
          /\ \A r \in rows : fk_media(r.media_id) /\ r \notin tweet_media
       THEN /\ tweet_media' = tweet_media \cup rows
            /\ Finish(p, Returned([result |-> TRUE, tweet_id |-> rq[p].loc.tweet_id]))
       ELSE /\ tweet_media' = tweet_media
            /\ Finish(p, Raised("IntegrityError"))
    /\ UNCHANGED <<tweets, tweet_seq, media, media_seq, likes, followers, files, now>>

\* ------------------------------------------------------------ add_media_files
\* `if file.filename is None: file.filename = "default_file.jpeg"`
filename(name) == IF name = NoName THEN "default_file.jpeg" ELSE name
\* os.path.join(dir, name), os.path.basename(path), f"{SAVE_PATH}{name}"
join(dir, name) == dir \o <<name>>
basename(path) == path[Len(path)]
path_to_image(name) == SAVE_PATH \o <<name>>

StartAddMediaFiles(p, u, name) == Begin(p, "add_media_files", "write", u, name)

\* open(file_path, "wb") and copyfileobj: creates or overwrites the file
AddMediaFilesWrite(p) ==
    /\ At(p, "add_media_files", "write")
    /\ files' = files \cup {join(UPL_DIR, filename(rq[p].arg))}
    /\ Goto(p, "add", <<>>)
    /\ UNCHANGED <<tables, now>>

\* MediaRepository.add
AddMediaFilesAdd(p) ==
    /\ At(p, "add_media_files", "add")
    /\ media_seq' = media_seq + 1
    /\ media' = media \cup {[id |-> media_seq', user_id |-> rq[p].user,
                             file_path |-> path_to_image(filename(rq[p].arg))]}
    /\ Finish(p, Returned([result |-> TRUE, media_id |-> media_seq']))
    /\ UNCHANGED <<tweets, tweet_seq, tweet_media, likes, followers, files, now>>

\* ------------------------------------------------------------ del_tweet
\* TweetRepository.filter(id=, user_id=, options=[selectinload(Tweets.media)])
TweetFilterOwned_anyuser(id, user) == {t \in tweets : t.id = id}
TweetFilterOwned(id, user) == {t \in tweets : t.id = id /\ t.user_id = user}
\* Tweets.media with TweetMedia.media (both lazy="selectin")
TweetMediaOf(id) == {tm \in tweet_media : tm.tweet_id = id}
MediaOf(id) == {m \in media : \E tm \in TweetMediaOf(id) : tm.media_id = m.id}
\* the Like rows of a tweet, as a bag
LikesOf(id) ==
    [row \in {r \in BagToSet(likes) : r.tweet_id = id} |-> CopiesIn(row, likes)]

\* TweetMediaRepository.filter(media_id=): scalars().first(), a row or None
TweetMediaFilter(media_id) == {tm \in tweet_media : tm.media_id = media_id}

StartDelTweet(p, u, id) == Begin(p, "del_tweet", "filter", u, id)

\* a deletion that looks up the media references before the tweet is deleted
DelTweetFilter_reclaimfirst(p) ==
    /\ At(p, "del_tweet", "filter")
    /\ IF TweetFilterOwned(rq[p].arg, rq[p].user) = {}
       THEN Finish(p, HTTPException(404))
       ELSE IF MediaOf(rq[p].arg) = {}
            THEN Goto(p, "delete", [rows |-> TweetMediaOf(rq[p].arg),
                                    media_files |-> MediaOf(rq[p].arg),
                                    todo |-> MediaOf(rq[p].arg)])
            ELSE Goto(p, "remaining", [rows |-> TweetMediaOf(rq[p].arg),
                                       media_files |-> MediaOf(rq[p].arg),
                                       todo |-> MediaOf(rq[p].arg),
                                       likes |-> LikesOf(rq[p].arg)])
    /\ UNCHANGED <<store, now>>

DelTweetFilter(p) ==
    /\ At(p, "del_tweet", "filter")
    /\ IF TweetFilterOwned(rq[p].arg, rq[p].user) = {}
       THEN Finish(p, HTTPException(404))
       ELSE Goto(p, "delete", [rows |-> TweetMediaOf(rq[p].arg),
                               media_files |-> MediaOf(rq[p].arg),
                               todo |-> MediaOf(rq[p].arg)])
    /\ UNCHANGED <<store, now>>

\* TweetRepository.delete, session.delete(tweet): the cascade loads Tweets.likes
DelTweetDelete(p) ==
    /\ At(p, "del_tweet", "delete")
    /\ Goto(p, "commit", [rows |-> rq[p].loc.rows,
                          media_files |-> rq[p].loc.media_files,
                          todo |-> rq[p].loc.todo,
                          likes |-> LikesOf(rq[p].arg)])
    /\ UNCHANGED <<store, now>>

\* what stays known of a finished del_tweet: the media the tweet referenced
\* and the likes the cascade had loaded
Kept(p) == [media_files |-> rq[p].loc.media_files, likes |-> rq[p].loc.likes]

\* a commit that deletes the tweet row alone
DelTweetCommit_nocascade(p) ==
    /\ At(p, "del_tweet", "commit")
    /\ tweets' = {t \in tweets : t.id # rq[p].arg}
    /\ IF rq[p].loc.todo = {}
       THEN FinishWith(p, Kept(p), Returned([result |-> TRUE]))
       ELSE Goto(p, "remaining", rq[p].loc)
    /\ UNCHANGED <<tweet_seq, media, media_seq, tweet_media, likes, followers,
                   files, now>>

\* TweetRepository.delete, session.commit(): DELETE of the loaded likes and
\* associations, then of the tweet; a row that still references the tweet
\* fails the foreign key and the transaction is rolled back
DelTweetCommit(p) ==
    /\ At(p, "del_tweet", "commit")
    /\ IF /\ TweetMediaOf(rq[p].arg) \subseteq rq[p].loc.rows
          /\ LikesOf(rq[p].arg) \sqsubseteq rq[p].loc.likes
       THEN /\ tweets' = {t \in tweets : t.id # rq[p].arg}
            /\ tweet_media' = tweet_media \ TweetMediaOf(rq[p].arg)
            /\ likes' = likes (-) LikesOf(rq[p].arg)
            /\ IF rq[p].loc.todo = {}
               THEN FinishWith(p, Kept(p), Returned([result |-> TRUE]))
               ELSE Goto(p, "remaining", rq[p].loc)
       ELSE /\ UNCHANGED <<tweets, tweet_media, likes>>
            /\ FinishWith(p, Kept(p), Raised("IntegrityError"))
    /\ UNCHANGED <<tweet_seq, media, media_seq, followers, files, now>>

\* a reference check that never finds the absence marker
DelTweetRemaining_never(p) ==
    /\ At(p, "del_tweet", "remaining")
    /\ \E m \in rq[p].loc.todo :
         LET rest == rq[p].loc.todo \ {m} IN
         IF rest = {}
         THEN FinishWith(p, Kept(p), Returned([result |-> TRUE]))
         ELSE Goto(p, "remaining", [rows |-> rq[p].loc.rows,
                                    media_files |-> rq[p].loc.media_files,
                                    todo |-> rest, likes |-> rq[p].loc.likes])
    /\ UNCHANGED <<store, now>>

\* `for tweet_media in media_files:` with the remaining_link lookup
DelTweetRemaining(p) ==
    /\ At(p, "del_tweet", "remaining")
    /\ \E m \in rq[p].loc.todo :
         LET rest == rq[p].loc.todo \ {m} IN
         IF TweetMediaFilter(m.id) = {}
         THEN Goto(p, "remove", [rows |-> rq[p].loc.rows,
                                 media_files |-> rq[p].loc.media_files,
                                 todo |-> rest, likes |-> rq[p].loc.likes,
                                 cur |-> m])
         ELSE IF rest = {}
              THEN FinishWith(p, Kept(p), Returned([result |-> TRUE]))
              ELSE Goto(p, "remaining", [rows |-> rq[p].loc.rows,
                                         media_files |-> rq[p].loc.media_files,
                                         todo |-> rest, likes |-> rq[p].loc.likes])
    /\ UNCHANGED <<store, now>>

\* a removal that passes over a missing file
DelTweetRemove_swallow(p) ==
    /\ At(p, "del_tweet", "remove")
    /\ files' = files \ {join(UPL_DIR, basename(rq[p].loc.cur.file_path))}
    /\ Goto(p, "media_delete", rq[p].loc)
    /\ UNCHANGED <<tables, now>>

\* os.remove(os.path.join(settings.UPL_DIR, os.path.basename(media.file_path)))
DelTweetRemove(p) ==
    /\ At(p, "del_tweet", "remove")
    /\ LET file_path == join(UPL_DIR, basename(rq[p].loc.cur.file_path)) IN
       IF file_path \in files
       THEN /\ files' = files \ {file_path}
            /\ Goto(p, "media_delete", rq[p].loc)
       ELSE /\ files' = files
            /\ FinishWith(p, Kept(p), Raised("FileNotFoundError"))
    /\ UNCHANGED <<tables, now>>

\* MediaRepository.delete: DELETE of the media row, checked by the foreign key
\* of tweet_media
DelTweetMediaDelete(p) ==
    /\ At(p, "del_tweet", "media_delete")
    /\ IF TweetMediaFilter(rq[p].loc.cur.id) = {}
       THEN /\ media' = {m \in media : m.id # rq[p].loc.cur.id}
            /\ IF rq[p].loc.todo = {}
               THEN FinishWith(p, Kept(p), Returned([result |-> TRUE]))
               ELSE Goto(p, "remaining", [rows |-> rq[p].loc.rows,
                                          media_files |-> rq[p].loc.media_files,
                                          todo |-> rq[p].loc.todo,
                                          likes |-> rq[p].loc.likes])
       ELSE /\ media' = media
            /\ FinishWith(p, Kept(p), Raised("IntegrityError"))
    /\ UNCHANGED <<tweets, tweet_seq, media_seq, tweet_media, likes, followers,
                   files, now>>

\* ------------------------------------------------------------ add_subscribe
\* UserRepository.get_by_id
user_get_by_id(user_id) == {u \in Users : u = user_id}
\* FollowerRepository.get_subscribe(follower_id=, followee_id=)
get_subscribe(follower_id, followee_id) ==
    CopiesIn([follower_id |-> follower_id, followee_id |-> followee_id], followers)

StartAddSubscribe(p, u, id) == Begin(p, "add_subscribe", "check", u, id)

AddSubscribeCheck_noself(p) ==
    /\ At(p, "add_subscribe", "check")
    /\ Goto(p, "get_by_id", <<>>)
    /\ UNCHANGED <<store, now>>

\* `if id == user.id:` comes before the first await
AddSubscribeCheck(p) ==
    /\ At(p, "add_subscribe", "check")
    /\ IF rq[p].arg = rq[p].user
       THEN Finish(p, HTTPException(409))
       ELSE Goto(p, "get_by_id", <<>>)
    /\ UNCHANGED <<store, now>>

AddSubscribeGetById(p) ==
    /\ At(p, "add_subscribe", "get_by_id")
    /\ IF user_get_by_id(rq[p].arg) = {}
       THEN Finish(p, HTTPException(404))
       ELSE Goto(p, "add", <<>>)
    /\ UNCHANGED <<store, now>>

\* FollowerRepository.add: the INSERT is checked by unique_follower_followee
AddSubscribeAdd(p) ==
    /\ At(p, "add_subscribe", "add")
    /\ LET row == [follower_id |-> rq[p].user, followee_id |-> rq[p].arg] IN
       IF unique_follower_followee(followers, row)
       THEN /\ followers' = followers (+) SetToBag({row})
            /\ Finish(p, Returned([result |-> TRUE]))
       ELSE /\ followers' = followers
            /\ Finish(p, Raised("IntegrityError"))
    /\ UNCHANGED <<tweets, tweet_seq, media, media_seq, tweet_media, likes,
                   files, now>>

\* ------------------------------------------------------------ delete_subscribe
StartDeleteSubscribe(p, u, id) == Begin(p, "delete_subscribe", "check", u, id)

DeleteSubscribeCheck(p) ==
    /\ At(p, "delete_subscribe", "check")
    /\ IF rq[p].arg = rq[p].user
       THEN Finish(p, HTTPException(409))
       ELSE Goto(p, "get_by_id", <<>>)
    /\ UNCHANGED <<store, now>>

DeleteSubscribeGetById(p) ==
    /\ At(p, "delete_subscribe", "get_by_id")
    /\ IF user_get_by_id(rq[p].arg) = {}
       THEN Finish(p, HTTPException(404))
       ELSE Goto(p, "get_subscribe", <<>>)
    /\ UNCHANGED <<store, now>>

DeleteSubscribeGetSubscribe(p) ==
    /\ At(p, "delete_subscribe", "get_subscribe")
    /\ CASE get_subscribe(rq[p].user, rq[p].arg) > 1 ->
              Finish(p, Raised("MultipleResultsFound"))
         [] get_subscribe(rq[p].user, rq[p].arg) = 0 ->
              Finish(p, HTTPException(404))
         [] OTHER -> Goto(p, "delete", <<>>)
    /\ UNCHANGED <<store, now>>

DeleteSubscribeDelete(p) ==
    /\ At(p, "delete_subscribe", "delete")
    /\ followers' = followers (-)
           SetToBag({[follower_id |-> rq[p].user, followee_id |-> rq[p].arg]})
    /\ Finish(p, Returned([result |-> TRUE]))
    /\ UNCHANGED <<tweets, tweet_seq, media, media_seq, tweet_media, likes,
                   files, now>>

\* ------------------------------------------------------------ get_tweets
\* `if (offset is not None) and (limit is not None): offset = (offset - 1) * limit`
PageOffset_raw(limit, offset) == offset
\* a conversion applied to every offset, a missing limit counted as one row
PageOffset_everyoffset(limit, offset) ==
    IF offset # None
    THEN Some((offset[1] - 1) * (IF limit # None THEN limit[1] ELSE 1))
    ELSE offset
PageOffset(limit, offset) ==
    IF offset # None /\ limit # None
    THEN Some((offset[1] - 1) * limit[1])
    ELSE offset

\* FollowerRepository.filter(follower_id=user.id) and the following_list
\* built from it
following_list_all(user) ==
    {r.followee_id : r \in BagToSet(followers)} \cup {user}
following_list(user) ==
    {r.followee_id : r \in {f \in BagToSet(followers) : f.follower_id = user}}
        \cup {user}

\* Tweets.likes_count, the SQL expression: count(Like.id) where
\* Like.tweet_id == Tweets.id
likes_count_uncorrelated(id) == BagCardinality(likes)
likes_count(id) == BagCardinality(LikesOf(id))

\* order_by=[Tweets.likes_count.desc(), Tweets.created_at.desc()]: a sorts
\* strictly before b
SortsBefore_asc(a, b) ==
    \/ likes_count(a.id) < likes_count(b.id)
    \/ likes_count(a.id) = likes_count(b.id) /\ a.created_at > b.created_at
SortsBefore(a, b) ==
    \/ likes_count(a.id) > likes_count(b.id)
    \/ likes_count(a.id) = likes_count(b.id) /\ a.created_at > b.created_at

\* the orders in which the store may return the rows S under ORDER BY: rows
\* that tie on every key come in any order
Ordered(S) ==
    {s \in [1..Cardinality(S) -> S] :
        /\ \A i, j \in DOMAIN s : i # j => s[i] # s[j]
        /\ \A i, j \in DOMAIN s : i < j => ~SortsBefore(s[j], s[i])}

\* query.offset(offset) and query.limit(limit), each only when not None
Skip(s, offset) ==
    IF offset = None \/ s = <<>> THEN s
    ELSE IF offset[1] >= Len(s) THEN <<>> ELSE SubSeq(s, offset[1] + 1, Len(s))
Take(s, limit) ==
    IF limit = None \/ s = <<>> THEN s
    ELSE IF limit[1] >= Len(s) THEN s
    ELSE IF limit[1] = 0 THEN <<>> ELSE SubSeq(s, 1, limit[1])
Paginate(s, limit, offset) == Take(Skip(s, offset), limit)

\* the view assembled for one tweet: tweet_dict
tweet_dict(t) ==
    [id |-> t.id,
     attachments |-> {m.file_path : m \in MediaOf(t.id)},
     author |-> t.user_id,
     likes |-> {r.user_id : r \in DOMAIN LikesOf(t.id)}]

StartGetTweets(p, u, limit, offset) ==
    Begin(p, "get_tweets", "follow_filter", u, [limit |-> limit, offset |-> offset])

GetTweetsFollowFilter(p) ==
    /\ At(p, "get_tweets", "follow_filter")
    /\ Goto(p, "tweet_filter", [following_list |-> following_list(rq[p].user)])
    /\ UNCHANGED <<store, now>>

\* TweetRepository.filter(limit=, offset=, custom_filters=, order_by=, options=)
\* and the loop that builds tweets_list; the store rejects a negative OFFSET
GetTweetsTweetFilter(p) ==
    /\ At(p, "get_tweets", "tweet_filter")
    /\ LET limit == rq[p].arg.limit
           offset == PageOffset(limit, rq[p].arg.offset)
           visible == {t \in tweets : t.user_id \in rq[p].loc.following_list}
       IN IF offset # None /\ offset[1] < 0
          THEN Finish(p, Raised("DBAPIError"))
          ELSE \E s \in Ordered(visible) :
                 LET rows == Paginate(s, limit, offset) IN
                 FinishWith(p,
                     [following_list |-> rq[p].loc.following_list,
                      rows |-> rows,
                      ranks |-> [i \in DOMAIN rows |-> likes_count(rows[i].id)]],
                     Returned([result |-> TRUE,
                               tweets |-> [i \in DOMAIN rows |-> tweet_dict(rows[i])]]))
    /\ UNCHANGED <<store, now>>

\* ------------------------------------------------------------ profiles
\* FollowerRepository.filter(followee_id=id) and the list built from it: one
\* entry {id: follower.follower.id} per row, as a bag of user ids (the name
\* in each entry is a column of the same users row)
followers_list(id) ==
    [u \in {r.follower_id : r \in {f \in BagToSet(followers) : f.followee_id = id}}
        |-> CopiesIn([follower_id |-> u, followee_id |-> id], followers)]
\* FollowerRepository.filter(follower_id=id): one entry per row
followings_list_by_followee(id) == followers_list(id)
followings_list(id) ==
    [u \in {r.followee_id : r \in {f \in BagToSet(followers) : f.follower_id = id}}
        |-> CopiesIn([follower_id |-> id, followee_id |-> u], followers)]

StartGetMyData(p, u) == Begin(p, "get_my_data", "followers", u, u)

GetMyDataFollowers(p) ==
    /\ At(p, "get_my_data", "followers")
    /\ Goto(p, "following", [followers |-> followers_list(rq[p].user)])
    /\ UNCHANGED <<store, now>>

GetMyDataFollowing(p) ==
    /\ At(p, "get_my_data", "following")
    /\ Finish(p, Returned([result |-> TRUE,
                           user |-> [id |-> rq[p].user,
                                     followers |-> rq[p].loc.followers,
                                     following |-> followings_list(rq[p].user)]]))
    /\ UNCHANGED <<store, now>>

\* get_user_data_by_id takes no user: the route authenticates the caller and
\* passes the identifier alone
StartGetUserDataById(p, u, id) == Begin(p, "get_user_data_by_id", "get_by_id", u, id)

GetUserDataGetById(p) ==
    /\ At(p, "get_user_data_by_id", "get_by_id")
    /\ IF user_get_by_id(rq[p].arg) = {}
       THEN Finish(p, HTTPException(404))
       ELSE Goto(p, "followers", <<>>)
    /\ UNCHANGED <<store, now>>

GetUserDataFollowers(p) ==
    /\ At(p, "get_user_data_by_id", "followers")
    /\ Goto(p, "following", [followers |-> followers_list(rq[p].arg)])
    /\ UNCHANGED <<store, now>>

GetUserDataFollowing(p) ==
    /\ At(p, "get_user_data_by_id", "following")
    /\ Finish(p, Returned([result |-> TRUE,
                           user |-> [id |-> rq[p].arg,
                                     followers |-> rq[p].loc.followers,
                                     following |-> followings_list(rq[p].arg)]]))
    /\ UNCHANGED <<store, now>>

\* ------------------------------------------------------------ get_current_user
\* Users.api_key (unique): the credential of each row of the users table
api_key(u) == <<"api-key", u>>
\* UserRepository.get_by_api_key: scalar_one_or_none over the unique column
get_by_api_key(key) == {u \in Users : api_key(u) = key}
\* HTTPException(status_code=, detail=) where the detail matters
HTTPExceptionDetail(code, detail) ==
    [exc |-> "HTTPException", status |-> code, body |-> <<>>, detail |-> detail]

StartGetCurrentUser(p, key) == Begin(p, "get_current_user", "lookup", None, key)

\* the lookup either raises (any storage failure: `except Exception`) or
\* returns the row or None
GetCurrentUser_swallow(p) ==
    /\ At(p, "get_current_user", "lookup")
    /\ \E failed \in BOOLEAN :
         IF failed \/ get_by_api_key(rq[p].arg) = {}
         THEN FinishWith(p, [failed |-> failed],
                         HTTPExceptionDetail(401, "Invalid API Key"))
         ELSE FinishWith(p, [failed |-> failed],
                         Returned(CHOOSE u \in get_by_api_key(rq[p].arg) : TRUE))
    /\ UNCHANGED <<store, now>>

GetCurrentUser(p) ==
    /\ At(p, "get_current_user", "lookup")
    /\ \E failed \in BOOLEAN :
         IF failed
         THEN FinishWith(p, [failed |-> failed],
                         HTTPExceptionDetail(500, "Internal server error"))
         ELSE IF get_by_api_key(rq[p].arg) = {}
              THEN FinishWith(p, [failed |-> failed],
                              HTTPExceptionDetail(401, "Invalid API Key"))
              ELSE FinishWith(p, [failed |-> failed],
                              Returned(CHOOSE u \in get_by_api_key(rq[p].arg) : TRUE))
    /\ UNCHANGED <<store, now>>

\* ------------------------------------------------------------ the boundary
\* JSONResponse(content=, status_code=): the status is 200 when none is given
JSONResponse(content, status_code) ==
    [content |-> content,
     status_code |-> IF status_code = None THEN 200 ELSE status_code[1]]
\* @app.exception_handler(HTTPException)
http_exception_handler(exc) ==
    JSONResponse([result |-> FALSE, error_type |-> exc.exc], Some(exc.status))
\* @app.exception_handler(Exception): the response is built without status_code
global_exception_handler(exc) ==
    JSONResponse([result |-> FALSE, error_type |-> exc.exc], None)
\* what the client receives for the outcome of a route: the returned value,
\* or the response of the handler registered for the exception
Response(res) ==
    CASE res.exc = "none" -> JSONResponse(res.body, None)
      [] res.exc = "HTTPException" -> http_exception_handler(res)
      [] OTHER -> global_exception_handler(res)

\* ------------------------------------------------------------ the clock
Tick ==
    /\ now' = now + 1
    /\ UNCHANGED <<store, rq>>

\* ------------------------------------------------------------ single lookups
\* **kwargs of a lookup: a value for each of the fields the caller names
Matches(row, kwargs) == \A field \in DOMAIN kwargs : row[field] = kwargs[field]
\* the rows of a table (a bag) that the equality criteria select
Selected(rows, kwargs) ==
    [row \in {r \in BagToSet(rows) : Matches(r, kwargs)} |-> CopiesIn(row, rows)]

\* Result.scalar_one_or_none(): the row, None when no row was selected,
\* MultipleResultsFound when more than one was
scalar_one_or_none(rows) ==
    IF BagCardinality(rows) = 0 THEN {Returned(None)}
    ELSE IF BagCardinality(rows) = 1
         THEN {Returned(Some(row)) : row \in BagToSet(rows)}
         ELSE {Raised("MultipleResultsFound")}
\* Result.scalars().first(): the first row the database returns (the query has
\* no ORDER BY, so any selected row), None when no row was selected
scalars_first(rows) ==
    IF BagCardinality(rows) = 0 THEN {Returned(None)}
    ELSE {Returned(Some(row)) : row \in BagToSet(rows)}

StartLikeFilter(p, kwargs) == Begin(p, "LikeRepository.filter", "execute", 1, kwargs)
StartTweetMediaFilter(p, kwargs) ==
    Begin(p, "TweetMediaRepository.filter", "execute", 1, kwargs)
StartGetSubscribe(p, kwargs) ==
    Begin(p, "FollowerRepository.get_subscribe", "execute", 1, kwargs)

\* LikeRepository.filter(**kwargs)
LikeRepositoryFilter(p) ==
    /\ At(p, "LikeRepository.filter", "execute")
    /\ \E res \in scalar_one_or_none(Selected(likes, rq[p].arg)) : Finish(p, res)
    /\ UNCHANGED <<store, now>>

\* TweetMediaRepository.filter(**kwargs)
TweetMediaRepositoryFilter(p) ==
    /\ At(p, "TweetMediaRepository.filter", "execute")
    /\ \E res \in scalars_first(Selected(SetToBag(tweet_media), rq[p].arg)) : Finish(p, res)
    /\ UNCHANGED <<store, now>>

\* FollowerRepository.get_subscribe(**kwargs)
FollowerRepositoryGetSubscribe(p) ==
    /\ At(p, "FollowerRepository.get_subscribe", "execute")
    /\ \E res \in scalar_one_or_none(Selected(followers, rq[p].arg)) : Finish(p, res)
    /\ UNCHANGED <<store, now>>

\* ------------------------------------------------------------ requests
LikeSteps(p) ==
    \/ AddLikeGetById(p) \/ AddLikeFilter(p) \/ AddLikeAdd(p)
    \/ DelLikeGetById(p) \/ DelLikeFilter(p) \/ DelLikeDelete(p)
CreateSteps(p) == AddNewTweetAdd(p)
AttachSteps(p) == AddNewTweetMediaFilter(p) \/ AddNewTweetAddAll(p)
UploadSteps(p) == AddMediaFilesWrite(p) \/ AddMediaFilesAdd(p)
DeleteSteps(p) == DelTweetFilter(p) \/ DelTweetDelete(p) \/ DelTweetCommit(p)
ReclaimSteps(p) ==
    DelTweetRemaining(p) \/ DelTweetRemove(p) \/ DelTweetMediaDelete(p)
FollowSteps(p) ==
    \/ AddSubscribeCheck(p) \/ AddSubscribeGetById(p) \/ AddSubscribeAdd(p)
    \/ DeleteSubscribeCheck(p) \/ DeleteSubscribeGetById(p)
    \/ DeleteSubscribeGetSubscribe(p) \/ DeleteSubscribeDelete(p)
FeedSteps(p) == GetTweetsFollowFilter(p) \/ GetTweetsTweetFilter(p)
ProfileSteps(p) ==
    \/ GetMyDataFollowers(p) \/ GetMyDataFollowing(p)
    \/ GetUserDataGetById(p) \/ GetUserDataFollowers(p) \/ GetUserDataFollowing(p)

\* room for one more tweet, one more media row: the sequences stay below n
TweetRoom(n) == tweet_seq + Pending("add_new_tweet", {"media_filter", "add"}) < n
MediaRoom(n) == media_seq + Pending("add_media_files", {"write", "add"}) < n
\* the clock moves at most once per tweet: more ticks order nothing new
ClockRoom == now < tweet_seq

\* lists a client may send as tweet_media_ids: absent, empty, one or two
\* identifiers, one identifier twice, an identifier that is never assigned
NoSuchMedia == MaxMedia + 1
MediaIdArgs ==
    {None, Some(<<>>), Some(<<1>>), Some(<<2>>), Some(<<1, 2>>), Some(<<2, 1>>),
     Some(<<1, 1>>), Some(<<NoSuchMedia>>), Some(<<1, NoSuchMedia>>)}
\* tweet identifiers a client may name (the last one is never assigned)
TweetIds(n) == 1..(n + 1)
Limits == {None} \cup {Some(n) : n \in 0..MaxLimit}
Offsets == {None} \cup {Some(n) : n \in 0..MaxPage}

\* Requests issued one after the other: uploads, tweets with media, deletion.
Next ==
    \/ \E a \in {<<1, NoName>>, <<1, "a.jpg">>, <<2, "a.jpg">>} :
           MediaRoom(MaxMedia) /\ StartAddMediaFiles(1, a[1], a[2])
    \/ \E ids \in MediaIdArgs : TweetRoom(MaxTweets) /\ StartAddNewTweet(1, 1, ids)
    \/ \E u \in {1, 2}, id \in TweetIds(MaxTweets) : StartDelTweet(1, u, id)
    \/ \E id \in TweetIds(MaxTweets) : StartAddLike(1, 2, id)
    \/ UploadSteps(1) \/ CreateSteps(1) \/ AttachSteps(1)
    \/ DeleteSteps(1) \/ ReclaimSteps(1)
    \/ AddLikeGetById(1) \/ AddLikeFilter(1) \/ AddLikeAdd(1)
Spec == Init /\ [][Next]_vars

\* Requests in flight at the same time: likes against creation and deletion.
NextLikes ==
    \E p \in Procs :
        \/ TweetRoom(MaxLikedTweets) /\ StartAddNewTweet(p, 1, None)
        \/ \E id \in TweetIds(MaxLikedTweets) : StartDelTweet(p, 1, id)
        \/ \E u \in {1, 2}, id \in TweetIds(MaxLikedTweets) : StartAddLike(p, u, id)
        \/ \E id \in TweetIds(MaxLikedTweets) : StartDelLike(p, 2, id)
        \/ CreateSteps(p) \/ DeleteSteps(p) \/ LikeSteps(p)
SpecLikes == Init /\ [][NextLikes]_vars

\* Requests issued one after the other: the feed over the follow graph.
NextFeed ==
    \/ \E e \in {<<1, 2>>, <<2, 3>>, <<3, 1>>} : StartAddSubscribe(1, e[1], e[2])
    \/ StartDeleteSubscribe(1, 1, 2)
    \/ \E u \in Users : TweetRoom(MaxFeedTweets) /\ StartAddNewTweet(1, u, None)
    \/ \E u \in Users : StartGetTweets(1, u, None, None)
    \/ FollowSteps(1) \/ CreateSteps(1) \/ FeedSteps(1)
SpecFeed == Init /\ [][NextFeed]_vars

\* Requests issued one after the other: one user's feed, ranked by likes.
NextRank ==
    \/ TweetRoom(MaxRankedTweets) /\ StartAddNewTweet(1, 1, None)
    \/ \E u \in {2, 3}, id \in TweetIds(MaxRankedTweets) : StartAddLike(1, u, id)
    \/ \E id \in TweetIds(MaxRankedTweets) : StartDelLike(1, 2, id)
    \/ StartGetTweets(1, 1, None, None)
    \/ ClockRoom /\ Tick
    \/ CreateSteps(1) \/ LikeSteps(1) \/ FeedSteps(1)
SpecRank == Init /\ [][NextRank]_vars

\* Requests issued one after the other: one user's feed, page by page, with
\* tweets of a user the reader does not follow.
NextPage ==
    \/ \E u \in {1, 2} : TweetRoom(MaxPagedTweets) /\ StartAddNewTweet(1, u, None)
    \/ \E id \in TweetIds(MaxPagedTweets) : StartAddLike(1, 2, id)
    \/ \E limit \in Limits, offset \in Offsets : StartGetTweets(1, 1, limit, offset)
    \/ ClockRoom /\ Tick
    \/ CreateSteps(1) \/ AddLikeGetById(1) \/ AddLikeFilter(1) \/ AddLikeAdd(1)
    \/ FeedSteps(1)
SpecPage == Init /\ [][NextPage]_vars

\* a user identifier no row of the users table has, a credential no row has
NoSuchUser == Cardinality(Users) + 1
UserIds == Users \cup {NoSuchUser}
Credentials == {api_key(1), api_key(3), api_key(NoSuchUser)}

\* Requests issued one after the other: follows, likes, profiles, credentials.
NextUsers ==
    \/ \E u \in {1, 2}, id \in UserIds : StartAddSubscribe(1, u, id)
    \/ \E u \in {1, 2}, id \in UserIds : StartDeleteSubscribe(1, u, id)
    \/ TweetRoom(MaxProfileTweets) /\ StartAddNewTweet(1, 1, None)
    \/ \E id \in TweetIds(MaxProfileTweets) : StartAddLike(1, 2, id)
    \/ \E id \in TweetIds(MaxProfileTweets) : StartDelLike(1, 2, id)
    \/ \E u \in Users : StartGetMyData(1, u)
    \/ \E id \in UserIds : StartGetUserDataById(1, 1, id)
    \/ \E key \in Credentials : StartGetCurrentUser(1, key)
    \/ FollowSteps(1) \/ CreateSteps(1) \/ LikeSteps(1) \/ ProfileSteps(1)
    \/ GetCurrentUser(1)
SpecUsers == Init /\ [][NextUsers]_vars

\* Requests in flight at the same time: follows against unfollows.
NextFollows ==
    \E p \in Procs :
        \/ \E u \in {1, 2}, id \in Users : StartAddSubscribe(p, u, id)
        \/ \E u \in {1, 2}, id \in Users : StartDeleteSubscribe(p, u, id)
        \/ FollowSteps(p)
SpecFollows == Init /\ [][NextFollows]_vars
\* the event loop resumes every coroutine whose storage call has returned
SpecFollowsFair == SpecFollows /\ \A p \in Procs : WF_vars(FollowSteps(p))

\* Requests in flight at the same time: one user's tweets on one media item,
\* created and deleted.
NextRace ==
    \E p \in Procs :
        \/ MediaRoom(MaxRaceMedia) /\ StartAddMediaFiles(p, 1, "a.jpg")
        \/ TweetRoom(MaxRaceTweets) /\ StartAddNewTweet(p, 1, Some(<<1>>))
        \/ \E id \in 1..MaxRaceTweets : StartDelTweet(p, 1, id)
        \/ UploadSteps(p) \/ CreateSteps(p) \/ AttachSteps(p)
        \/ DeleteSteps(p) \/ ReclaimSteps(p)
SpecRace == Init /\ [][NextRace]_vars

\* no request is in flight; no request other than a deletion is in flight
Quiet == \A q \in Procs : Free(q)
OnlyDeletions == \A q \in Procs : Free(q) \/ rq[q].op = "del_tweet"

\* Deletions in flight at the same time, uploads and creations issued while
\* nothing else runs: one user's tweets on one media item.
NextDeletes ==
    \E p \in Procs :
        \/ Quiet /\ MediaRoom(MaxRaceMedia) /\ StartAddMediaFiles(p, 1, "a.jpg")
        \/ Quiet /\ TweetRoom(MaxRaceTweets) /\ StartAddNewTweet(p, 1, Some(<<1>>))
        \/ \E id \in 1..MaxRaceTweets : OnlyDeletions /\ StartDelTweet(p, 1, id)
        \/ UploadSteps(p) \/ CreateSteps(p) \/ AttachSteps(p)
        \/ DeleteSteps(p) \/ ReclaimSteps(p)
SpecDeletes == Init /\ [][NextDeletes]_vars

\* the equality criteria a caller may pass over the given columns: a value for
\* none, some or all of them
LookupValues == 1..Cardinality(Users)
Criteria(fields) == UNION {[S -> LookupValues] : S \in SUBSET fields}

\* Requests issued one after the other: tweets on one media item, likes and
\* follows, and the single lookups of the three repositories.
NextLookups ==
    \/ MediaRoom(MaxLookupMedia) /\ StartAddMediaFiles(1, 1, "a.jpg")
    \/ TweetRoom(MaxLookupTweets) /\ StartAddNewTweet(1, 1, Some(<<1>>))
    \/ \E u \in {2, 3} : StartAddLike(1, u, 1)
    \/ \E id \in {2, 3} : StartAddSubscribe(1, 1, id)
    \/ \E kwargs \in Criteria({"tweet_id", "user_id"}) : StartLikeFilter(1, kwargs)
    \/ \E kwargs \in Criteria({"tweet_id", "media_id"}) :
           StartTweetMediaFilter(1, kwargs)
    \/ \E kwargs \in Criteria({"follower_id", "followee_id"}) :
           StartGetSubscribe(1, kwargs)
    \/ UploadSteps(1) \/ CreateSteps(1) \/ AttachSteps(1)
    \/ AddLikeGetById(1) \/ AddLikeFilter(1) \/ AddLikeAdd(1)
    \/ AddSubscribeCheck(1) \/ AddSubscribeGetById(1) \/ AddSubscribeAdd(1)
    \/ LikeRepositoryFilter(1) \/ TweetMediaRepositoryFilter(1)
    \/ FollowerRepositoryGetSubscribe(1)
SpecLookups == Init /\ [][NextLookups]_vars

\* ================================================================ claims
\* a request of slot p has ended
Ended(p, op) == rq[p].op = op /\ rq[p].pc = "done"
\* slot p takes a step
Steps(p) == rq'[p] # rq[p]
\* the file of a media row in the upload directory
StoredFile(m) == join(UPL_DIR, basename(m.file_path))

\* C1: media reclamation. When delete-tweet has ended for a tweet that was
\* found, every media item M the tweet referenced that another tweet still
\* references keeps its Media row and its stored file (the tweet was T1), and
\* every item no tweet references any more has lost its Media row and its
\* file, the request having succeeded (the tweet was T2).
C1_MediaReclamation ==
    \A p \in Procs :
        (Ended(p, "del_tweet") /\ rq[p].res.status # 404) =>
            \A m \in rq[p].loc.media_files :
                IF TweetMediaFilter(m.id) # {}
                THEN m \in media /\ StoredFile(m) \in files
                ELSE /\ rq[p].res.exc = "none"
                     /\ m \notin media
                     /\ StoredFile(m) \notin files

\* the Like rows of the pair (tweet, user)
LikeRows(tweet_id, user_id) ==
    CopiesIn([tweet_id |-> tweet_id, user_id |-> user_id], likes)

\* C2: a like-tweet request of a user who has already liked the tweet, issued
\* after the first one has ended, ends in Conflict (409) at the existence
\* check, and the Like table then holds exactly one row for the pair.
C2_DuplicateLike ==
    [][\A p \in Procs :
          (/\ At(p, "add_like", "filter")
           /\ LikeRows(rq[p].arg, rq[p].user) >= 1
           /\ Steps(p))
          => /\ rq'[p].pc = "done"
             /\ rq'[p].res = HTTPException(409)
             /\ likes' = likes
             /\ LikeRows(rq[p].arg, rq[p].user) = 1]_vars

\* C2 witness: a second like has ended in 409 and the pair has one row
C2_Witness ==
    \E p \in Procs :
        /\ Ended(p, "add_like")
        /\ rq[p].res = HTTPException(409)
        /\ LikeRows(rq[p].arg, rq[p].user) = 1

\* C3: in every reachable state, whatever the interleaving of like-tweet,
\* unlike-tweet, create-tweet and delete-tweet, the Like table holds at most
\* one row per (tweet, user) pair.
C3_LikeUnique ==
    \A row \in BagToSet(likes) : CopiesIn(row, likes) <= 1

\* C3 witness: two like requests of one user for one tweet were in flight
\* together, both passed the existence check, and one row was inserted
C3_Witness ==
    /\ Ended(1, "add_like") /\ Ended(2, "add_like")
    /\ rq[1].user = rq[2].user /\ rq[1].arg = rq[2].arg
    /\ rq[1].res.exc = "none"
    /\ rq[2].res.exc = "IntegrityError"
    /\ LikeRows(rq[1].arg, rq[1].user) = 1

\* the media identifiers that exist and belong to the user
OwnedMediaIds(user) == {m.id : m \in {x \in media : x.user_id = user}}

\* C4: create-tweet with a non-empty list of media identifiers one of which
\* does not exist or is not owned by the requesting user ends in a validation
\* error (400) and adds no Tweet row and no TweetMedia row.
C4_InvalidMediaRejected ==
    [][\A p \in Procs :
          (/\ At(p, "add_new_tweet", "media_filter")
           /\ \E i \in DOMAIN rq[p].arg[1] :
                  rq[p].arg[1][i] \notin OwnedMediaIds(rq[p].user)
           /\ Steps(p))
          => /\ rq'[p].pc = "done"
             /\ rq'[p].res = HTTPException(400)
             /\ tweets' = tweets
             /\ tweet_seq' = tweet_seq
             /\ tweet_media' = tweet_media]_vars

\* C4 witness: a tweet naming an existing media item of another user was
\* refused with 400
C4_Witness ==
    \E p \in Procs :
        /\ Ended(p, "add_new_tweet")
        /\ rq[p].res = HTTPException(400)
        /\ \E m \in media : m.id \in Range(rq[p].arg[1]) /\ m.user_id # rq[p].user

\* C5: for every list of media identifiers all of which exist and are owned
\* by the requesting user, a list that names one identifier twice included,
\* create-tweet succeeds with {result: true, tweet_id: X} and tweet X has
\* exactly one TweetMedia association per validated media identifier.
C5_ValidMediaAttached ==
    \A p \in Procs :
        (/\ Ended(p, "add_new_tweet")
         /\ Truthy(rq[p].arg)
         /\ Range(rq[p].arg[1]) \subseteq OwnedMediaIds(rq[p].user))
        => /\ rq[p].res.exc = "none"
           /\ rq[p].res.body.result = TRUE
           /\ {tm.media_id : tm \in TweetMediaOf(rq[p].res.body.tweet_id)}
                  = Range(rq[p].arg[1])
           /\ Cardinality(TweetMediaOf(rq[p].res.body.tweet_id))
                  = Cardinality(Range(rq[p].arg[1]))

\* user follows other: a Follow row for the ordered pair exists
Follows(user, other) ==
    BagIn([follower_id |-> user, followee_id |-> other], followers)
\* the tweets a feed of user has to show: the user's own and the followees'
Visible(user) ==
    {t \in tweets : t.user_id = user \/ Follows(user, t.user_id)}
\* a list-feed request without limit and page has ended with a result
FeedEnded(p) ==
    /\ Ended(p, "get_tweets")
    /\ rq[p].arg.limit = None /\ rq[p].arg.offset = None
    /\ rq[p].res.exc = "none"
\* the row of the tweets table a returned view stands for
TweetRow(view) == CHOOSE t \in tweets : t.id = view.id
\* the number of Like rows of a tweet in the table
LiveLikes(id) ==
    Cardinality({x \in Users \X (1..BagCardinality(likes)) :
                     x[2] <= LikeRows(id, x[1])})

\* C6: feed membership. list-feed of caller U returns, each once, exactly the
\* tweets whose author is U or a user U follows at query time: tweets of a
\* user U does not follow are absent, U's own are present even when U
\* follows nobody.
C6_FeedMembership ==
    \A p \in Procs :
        (Ended(p, "get_tweets") /\ rq[p].arg.limit = None
                                /\ rq[p].arg.offset = None)
        => /\ rq[p].res.exc = "none"
           /\ LET out == rq[p].res.body.tweets IN
              /\ {out[i].id : i \in DOMAIN out}
                     = {t.id : t \in Visible(rq[p].user)}
              /\ Len(out) = Cardinality(Visible(rq[p].user))
              /\ \A i \in DOMAIN out : out[i].author = TweetRow(out[i]).user_id

\* C6 witness: U follows V and not W, both V and W have a tweet, and the feed
\* of U holds V's tweet alone
C6_Witness ==
    \E p \in Procs :
        /\ FeedEnded(p)
        /\ \E v, w \in Users \ {rq[p].user} :
              /\ Follows(rq[p].user, v) /\ ~Follows(rq[p].user, w)
              /\ \E a, b \in tweets : a.user_id = v /\ b.user_id = w
              /\ \E other \in Users : Follows(other, w)
        /\ Len(rq[p].res.body.tweets) = 1

\* the order the claim states: A before B
ClaimedBefore(a, b) ==
    \/ Cardinality(a.likes) > Cardinality(b.likes)
    \/ /\ Cardinality(a.likes) = Cardinality(b.likes)
       /\ TweetRow(a).created_at > TweetRow(b).created_at

\* C7 as stated: for all pairs of tweets (A, B) of a list-feed result, A
\* precedes B iff likeCount(A) > likeCount(B), or the like counts are equal
\* and A.createdAt > B.createdAt.
C7_FeedTotalOrder ==
    \A p \in Procs :
        FeedEnded(p) =>
            LET out == rq[p].res.body.tweets IN
            \A i, j \in DOMAIN out :
                i # j => ((i < j) <=> ClaimedBefore(out[i], out[j]))

\* C7 as amended: for all pairs of tweets (A, B) of a list-feed result, if
\* likeCount(A) > likeCount(B), or the like counts are equal and
\* A.createdAt > B.createdAt, then A precedes B; two tweets equal in both
\* come in either order.
C7_FeedOrder ==
    \A p \in Procs :
        FeedEnded(p) =>
            LET out == rq[p].res.body.tweets IN
            \A i, j \in DOMAIN out :
                ClaimedBefore(out[i], out[j]) => i < j

\* C7 witness: a feed of three tweets ranked by likes first, by creation time
\* next, the last two equal in both
C7_Witness ==
    \E p \in Procs :
        /\ FeedEnded(p)
        /\ LET out == rq[p].res.body.tweets IN
           /\ Len(out) = 3
           /\ Cardinality(out[1].likes) > Cardinality(out[2].likes)
           /\ Cardinality(out[2].likes) = Cardinality(out[3].likes)
           /\ TweetRow(out[2]).created_at = TweetRow(out[3]).created_at
           /\ TweetRow(out[1]).created_at < TweetRow(out[2]).created_at

\* C8: no staleness. For every tweet T a list-feed returns, the like entries
\* returned for T are the users of the Like rows of T at query time, and the
\* like count T was ranked by is the number of those rows.
C8_LiveLikes ==
    \A p \in Procs :
        FeedEnded(p) =>
            LET out == rq[p].res.body.tweets IN
            \A i \in DOMAIN out :
                /\ out[i].likes = {u \in Users : LikeRows(out[i].id, u) >= 1}
                /\ rq[p].loc.ranks[i] = LiveLikes(out[i].id)

\* C8 witness: a feed with a tweet two users like and a tweet nobody likes
C8_Witness ==
    \E p \in Procs :
        /\ FeedEnded(p)
        /\ LET out == rq[p].res.body.tweets IN
           \E i, j \in DOMAIN out :
               Cardinality(out[i].likes) = 2 /\ out[j].likes = {}

C10_DeleteOwnerOnly ==
    [][\A p \in Procs :
          (/\ At(p, "del_tweet", "filter")
           /\ ~(\E t \in tweets : t.id = rq[p].arg /\ t.user_id = rq[p].user)
           /\ Steps(p))
          => /\ rq'[p].pc = "done"
             /\ rq'[p].res = HTTPException(404)
             /\ UNCHANGED store]_vars

\* C10 witness: a user was refused the deletion of another user's tweet that
\* has a like and a media item
C10_Witness ==
    \E p \in Procs :
        /\ Ended(p, "del_tweet")
        /\ rq[p].res = HTTPException(404)
        /\ \E t \in tweets :
              /\ t.id = rq[p].arg /\ t.user_id # rq[p].user
              /\ TweetMediaOf(t.id) # {}
              /\ LikesOf(t.id) # EmptyBag

\* C11: cascade. After a successful delete-tweet(T) no Like row and no
\* TweetMedia row references T, and in every reachable state every Like row
\* and every TweetMedia row references an existing tweet.
C11_Cascade ==
    /\ \A p \in Procs :
          (Ended(p, "del_tweet") /\ rq[p].res.exc = "none")
          => /\ LikesOf(rq[p].arg) = EmptyBag
             /\ TweetMediaOf(rq[p].arg) = {}
    /\ \A r \in BagToSet(likes) : \E t \in tweets : t.id = r.tweet_id
    /\ \A tm \in tweet_media : \E t \in tweets : t.id = tm.tweet_id

\* C11 witness: a tweet that had a like and a media association was deleted
\* with success while another tweet keeps its own like
C11_Witness ==
    \E p \in Procs :
        /\ Ended(p, "del_tweet")
        /\ rq[p].res.exc = "none"
        /\ rq[p].loc.media_files # {}
        /\ rq[p].loc.likes # EmptyBag
        /\ likes # EmptyBag

\* the Follow rows of the ordered pair (follower, followee)
FollowRows(follower_id, followee_id) ==
    CopiesIn([follower_id |-> follower_id, followee_id |-> followee_id], followers)
\* slot p runs a request of one of the operations ops that has not ended
Running(p, ops) == rq[p].op \in ops /\ rq[p].pc # "done"

\* C12: duplicate follow. A follow-user request for a pair whose Follow row
\* exists ends in Conflict (409), and the Follow table keeps exactly one row
\* for the pair.
C12_DuplicateFollow ==
    [][\A p \in Procs :
          (/\ Running(p, {"add_subscribe"})
           /\ FollowRows(rq[p].user, rq[p].arg) >= 1
           /\ Steps(p)
           /\ rq'[p].pc = "done")
          => /\ rq'[p].res = HTTPException(409)
             /\ Response(rq'[p].res).status_code = 409
             /\ followers' = followers
             /\ FollowRows(rq[p].user, rq[p].arg) = 1]_vars

\* C13: self-follow and self-unfollow. The comparison of the target with the
\* caller is the first step of follow-user and unfollow-user; when they are
\* equal the request ends there with Conflict (409), before any lookup, and
\* the store is unchanged.
C13_SelfRejected ==
    [][\A p \in Procs :
          /\ (/\ Free(p) /\ Steps(p)
              /\ rq'[p].op \in {"add_subscribe", "delete_subscribe"})
             => rq'[p].pc = "check"
          /\ (/\ Running(p, {"add_subscribe", "delete_subscribe"})
              /\ rq[p].arg = rq[p].user
              /\ Steps(p))
             => /\ rq[p].pc = "check"
                /\ rq'[p].pc = "done"
                /\ rq'[p].res = HTTPException(409)
                /\ Response(rq'[p].res).status_code = 409
                /\ UNCHANGED store]_vars

\* C13 witness: a user who follows somebody was refused to follow, or to
\* unfollow, themselves
C13_Witness ==
    \E p \in Procs :
        /\ \/ Ended(p, "add_subscribe")
           \/ Ended(p, "delete_subscribe")
        /\ rq[p].arg = rq[p].user
        /\ rq[p].res = HTTPException(409)
        /\ \E v \in Users : FollowRows(rq[p].user, v) = 1

\* C14: in every reachable state, whatever the interleaving of follow-user
\* and unfollow-user, the Follow table holds at most one row per ordered
\* (follower, followee) pair and no row with follower = followee.
C14_FollowUnique ==
    \A row \in BagToSet(followers) :
        /\ CopiesIn(row, followers) <= 1
        /\ row.follower_id # row.followee_id

\* C14 witness: two follow requests for one pair were in flight together,
\* both reached the insert, and one row was inserted
C14_Witness ==
    /\ Ended(1, "add_subscribe") /\ Ended(2, "add_subscribe")
    /\ rq[1].user = rq[2].user /\ rq[1].arg = rq[2].arg
    /\ rq[1].res.exc = "none"
    /\ rq[2].res.exc = "IntegrityError"
    /\ FollowRows(rq[1].user, rq[1].arg) = 1

\* C15: unlike-tweet of an existing tweet the caller has not liked, and
\* unfollow-user of an existing user the caller does not follow, change
\* nothing in the store at any step and end in NotFound (404).
C15_RelationRequired ==
    [][\A p \in Procs :
          (/\ \/ /\ Running(p, {"del_like"})
                 /\ fk_tweet(rq[p].arg)
                 /\ LikeRows(rq[p].arg, rq[p].user) = 0
              \/ /\ Running(p, {"delete_subscribe"})
                 /\ rq[p].arg # rq[p].user
                 /\ user_get_by_id(rq[p].arg) # {}
                 /\ FollowRows(rq[p].user, rq[p].arg) = 0
           /\ Steps(p))
          => /\ UNCHANGED store
             /\ rq'[p].pc \notin {"delete"}
             /\ rq'[p].pc = "done" =>
                   /\ rq'[p].res = HTTPException(404)
                   /\ Response(rq'[p].res).status_code = 404]_vars

\* C15 witness: a user was refused the unlike of an existing tweet they have
\* not liked, while the Follow table holds rows
C15_Witness ==
    \E p \in Procs :
        /\ Ended(p, "del_like")
        /\ fk_tweet(rq[p].arg)
        /\ LikeRows(rq[p].arg, rq[p].user) = 0
        /\ rq[p].res = HTTPException(404)
        /\ followers # EmptyBag

\* the target a request names does not exist
MissingTarget(p) ==
    \/ Running(p, {"add_like", "del_like"}) /\ ~fk_tweet(rq[p].arg)
    \/ /\ Running(p, {"add_subscribe", "delete_subscribe", "get_user_data_by_id"})
       /\ user_get_by_id(rq[p].arg) = {}

\* C16: like-tweet and unlike-tweet on a missing tweet, follow-user and
\* unfollow-user on a missing user, and get-profile(id) for a missing user
\* change no table and end in NotFound (404) at the existence check, which
\* comes before any lookup of a like or a follow.
C16_MissingTarget ==
    [][\A p \in Procs :
          (MissingTarget(p) /\ Steps(p))
          => /\ UNCHANGED store
             /\ rq'[p].pc \in {"get_by_id", "done"}
             /\ rq'[p].pc = "done" =>
                   /\ rq'[p].res = HTTPException(404)
                   /\ Response(rq'[p].res).status_code = 404]_vars

\* C16 witness: a like of a tweet identifier that was never assigned was
\* refused with 404 while another tweet exists
C16_Witness ==
    \E p \in Procs :
        /\ Ended(p, "add_like")
        /\ ~fk_tweet(rq[p].arg)
        /\ rq[p].res = HTTPException(404)
        /\ tweets # {}

\* C17: boundary status mapping. A request that ends in a failure other than
\* a domain error is answered with status 500 and the envelope
\* {result: false, error_type, ...}; a domain error keeps its status.
C17_BoundaryStatus ==
    \A p \in Procs :
        (rq[p].pc = "done" /\ rq[p].res.exc # "none")
        => LET r == Response(rq[p].res) IN
           /\ r.content.result = FALSE
           /\ r.content.error_type = rq[p].res.exc
           /\ IF rq[p].res.exc = "HTTPException"
              THEN r.status_code = rq[p].res.status
              ELSE r.status_code = 500

\* C18: when delete-tweet comes to remove the file of an unreferenced media
\* item and the file is missing, the request ends there in an error that
\* reaches the client (no success is reported), and the Media row of the
\* item stays.
C18_MissingFileSurfaced ==
    [][\A p \in Procs :
          (/\ At(p, "del_tweet", "remove")
           /\ StoredFile(rq[p].loc.cur) \notin files
           /\ Steps(p))
          => /\ rq'[p].pc = "done"
             /\ rq'[p].res.exc = "FileNotFoundError"
             /\ Response(rq'[p].res).content.result = FALSE
             /\ Response(rq'[p].res).content.error_type = "FileNotFoundError"
             /\ rq[p].loc.cur \in media'
             /\ UNCHANGED store]_vars

\* C18 witness: a delete-tweet ended in FileNotFoundError and left behind the
\* Media row of an item no tweet references, its file missing
C18_Witness ==
    \E p \in Procs :
        /\ Ended(p, "del_tweet")
        /\ rq[p].res.exc = "FileNotFoundError"
        /\ \E m \in rq[p].loc.media_files :
              /\ m \in media
              /\ TweetMediaFilter(m.id) = {}
              /\ StoredFile(m) \notin files

\* C19: identity resolution. A lookup that fails ends in 500; a credential
\* that matches no user ends in 401 'Invalid API Key'; a credential that
\* matches a user returns exactly that user.
C19_IdentityResolution ==
    \A p \in Procs :
        Ended(p, "get_current_user") =>
            IF rq[p].loc.failed
            THEN /\ rq[p].res.exc = "HTTPException"
                 /\ Response(rq[p].res).status_code = 500
            ELSE IF \A u \in Users : api_key(u) # rq[p].arg
                 THEN /\ rq[p].res = HTTPExceptionDetail(401, "Invalid API Key")
                      /\ Response(rq[p].res).status_code = 401
                 ELSE /\ rq[p].res.exc = "none"
                      /\ rq[p].res.body \in Users
                      /\ api_key(rq[p].res.body) = rq[p].arg

\* C19 witness: the lookup of a credential some user holds failed and the
\* request ended in 500
C19_Witness ==
    \E p \in Procs :
        /\ Ended(p, "get_current_user")
        /\ rq[p].loc.failed
        /\ \E u \in Users : api_key(u) = rq[p].arg
        /\ rq[p].res.status = 500

\* the users a profile list names
Listed(list) == {u \in DOMAIN list : list[u] >= 1}

\* C20: profile consistency. V is in the 'following' list of U's profile iff
\* U is in the 'followers' list of V's profile, and the two lists of a
\* profile a request returned name, each once, exactly the users of the
\* current Follow rows.
C20_ProfileConsistency ==
    /\ \A u, v \in Users :
          v \in Listed(followings_list(u)) <=> u \in Listed(followers_list(v))
    /\ \A p \in Procs :
          ((Ended(p, "get_my_data") \/ Ended(p, "get_user_data_by_id"))
              /\ rq[p].res.exc = "none")
          => LET profile == rq[p].res.body.user IN
             /\ profile.id = rq[p].arg
             /\ Listed(profile.following)
                    = {v \in Users : FollowRows(profile.id, v) >= 1}
             /\ Listed(profile.followers)
                    = {w \in Users : FollowRows(w, profile.id) >= 1}
             /\ \A v \in DOMAIN profile.following : profile.following[v] = 1
             /\ \A w \in DOMAIN profile.followers : profile.followers[w] = 1

\* C20 witness: the profile of a user who follows one user and is followed by
\* another
C20_Witness ==
    \E p \in Procs :
        /\ Ended(p, "get_user_data_by_id")
        /\ rq[p].res.exc = "none"
        /\ LET profile == rq[p].res.body.user IN
           \E v, w \in Users :
               /\ v # w
               /\ Listed(profile.following) = {v}
               /\ Listed(profile.followers) = {w}
               /\ FollowRows(w, v) = 0

\* C21: two like-tweet requests of one user for one tweet in flight together.
\* The request that comes to insert when the row of the pair is already there
\* (it passed the existence check before the other inserted) is rejected by
\* the uniqueness constraint and reported as a conflict (409); the other
\* reported success, and exactly one Like row exists afterwards.
C21_ConcurrentLike ==
    [][\A p \in Procs :
          (/\ At(p, "add_like", "add")
           /\ LikeRows(rq[p].arg, rq[p].user) >= 1
           /\ Steps(p))
          => /\ rq'[p].pc = "done"
             /\ likes' = likes
             /\ LikeRows(rq[p].arg, rq[p].user) = 1
             /\ Response(rq'[p].res).status_code = 409]_vars

\* C22: delete-tweet of the last tweet on media M against a create-tweet
\* that attaches M, in every interleaving. A tweet that was created with
\* success keeps its association to M, the Media row of M and the file of M:
\* every TweetMedia row references an existing Media row whose stored file
\* exists.
C22_AttachedMediaKept ==
    \A tm \in tweet_media :
        \E m \in media :
            /\ m.id = tm.media_id
            /\ StoredFile(m) \in files

\* the tweet a deletion names is gone, with its likes and its associations
TweetGone(id) ==
    /\ \A t \in tweets : t.id # id
    /\ \A tm \in tweet_media : tm.tweet_id # id
    /\ \A row \in BagToSet(likes) : row.tweet_id # id

\* C23: the order of the steps of delete-tweet. The tweet, with its likes and
\* its associations, is deleted and committed first: the lookup of the
\* remaining references, the removal of a file and the deletion of a Media row
\* are steps of a request whose tweet is already gone. A file is removed only
\* by the removal step, for the item whose lookup found no reference, and a
\* Media row is deleted only after its stored file has been removed.
C23_DeleteOrder ==
    [][\A p \in Procs :
          (Running(p, {"del_tweet"}) /\ Steps(p)) =>
              /\ rq[p].pc \in {"remaining", "remove", "media_delete"}
                     => TweetGone(rq[p].arg)
              /\ tweets' # tweets => rq[p].pc = "commit"
              /\ files' # files
                     => /\ rq[p].pc = "remove"
                        /\ files' = files \ {StoredFile(rq[p].loc.cur)}
                        /\ rq[p].loc.cur \in media'
              /\ media' # media
                     => /\ rq[p].pc = "media_delete"
                        /\ media' = media \ {rq[p].loc.cur}
                        /\ StoredFile(rq[p].loc.cur) \notin files]_vars

\* C23 witness: a deletion is about to delete the Media row of an item whose
\* file it has removed, its tweet being gone
C23_Witness ==
    \E p \in Procs :
        /\ At(p, "del_tweet", "media_delete")
        /\ TweetGone(rq[p].arg)
        /\ rq[p].loc.cur \in media
        /\ StoredFile(rq[p].loc.cur) \notin files

\* the single lookups, and the table each one reads
SingleLookups ==
    {"LikeRepository.filter", "TweetMediaRepository.filter",
     "FollowerRepository.get_subscribe"}
TableOf(op) ==
    CASE op = "LikeRepository.filter" -> BagToSet(likes)
      [] op = "TweetMediaRepository.filter" -> tweet_media
      [] op = "FollowerRepository.get_subscribe" -> BagToSet(followers)

\* C24: absence-aware lookup. A single lookup of the Like, TweetMedia or
\* Follow repository that has ended, whatever its criteria and the content of
\* the store, has raised no error and returned None or one row of its table
\* that meets the criteria, also when the criteria select more than one row.
C24_SingleLookup ==
    \A p \in Procs :
        (rq[p].op \in SingleLookups /\ rq[p].pc = "done") =>
            /\ rq[p].res.exc = "none"
            /\ \/ rq[p].res.body = None
               \/ \E row \in TableOf(rq[p].op) :
                      /\ Matches(row, rq[p].arg)
                      /\ rq[p].res.body = Some(row)

\* a TweetMedia row references the media item
Referenced(m) == \E tm \in tweet_media : tm.media_id = m.id

\* C25, as stated: no step of a delete-tweet request deletes a Media row or
\* removes a file.
C25_NeverReclaims ==
    [][\A p \in Procs :
          (Running(p, {"del_tweet"}) /\ Steps(p))
          => media' = media /\ files' = files]_vars

\* C25: the reference check of delete-tweet compares the one row or None of
\* the lookup against None. The request goes on to reclaim an item of the
\* deleted tweet (to remove its file, then to delete its Media row) exactly
\* when no TweetMedia row references the item at the time of the check; an
\* item that is still referenced is passed over.
C25_ReclaimWhenUnreferenced ==
    [][\A p \in Procs :
          (At(p, "del_tweet", "remaining") /\ Steps(p)) =>
              /\ store' = store
              /\ rq'[p].pc \in {"remove", "remaining", "done"}
              /\ rq'[p].pc = "remove"
                     => /\ rq'[p].loc.cur \in rq[p].loc.todo
                        /\ ~Referenced(rq'[p].loc.cur)
                        /\ rq'[p].loc.todo = rq[p].loc.todo \ {rq'[p].loc.cur}
              /\ rq'[p].pc = "remaining"
                     => \E m \in rq[p].loc.todo :
                            /\ Referenced(m)
                            /\ rq'[p].loc.todo = rq[p].loc.todo \ {m}
              /\ rq'[p].pc = "done"
                     => /\ \E m \in rq[p].loc.todo :
                               Referenced(m) /\ rq[p].loc.todo = {m}
                        /\ rq'[p].res = Returned([result |-> TRUE])]_vars

\* C25 witness: a delete-tweet request has ended with success after it
\* reclaimed one item (row and file gone) and passed over another that a
\* second tweet references
C25_Witness ==
    \E p \in Procs :
        /\ Ended(p, "del_tweet")
        /\ rq[p].res = Returned([result |-> TRUE])
        /\ \E m1, m2 \in rq[p].loc.media_files :
               /\ m1 \notin media /\ StoredFile(m1) \notin files
               /\ m2 \in media /\ Referenced(m2)

HoldsSession(p) == rq[p].session # None

\* C27: every request releases the session it acquired, on every exit path:
\* a request that holds a session comes to hold none, whether it ends with a
\* result, a domain error or a storage error, and at no time do two requests
\* hold the same session.
C27_SessionReleased ==
    /\ [](\A p, q \in Procs :
              (p # q /\ HoldsSession(p) /\ HoldsSession(q))
              => rq[p].session # rq[q].session)
    /\ [](\A p \in Procs : HoldsSession(p) <=> ~Free(p))
    /\ \A p \in Procs : HoldsSession(p) ~> ~HoldsSession(p)

\* C27 witness: a follow request has ended with a storage error and holds no
\* session, while the request of the other slot holds one
C27_Witness ==
    \E p, q \in Procs :
        /\ Ended(p, "add_subscribe")
        /\ rq[p].res.exc = "IntegrityError"
        /\ ~HoldsSession(p)
        /\ HoldsSession(q)

\* C28: two delete-tweet requests for the two tweets T1 and T2 that alone
\* reference media M, in every interleaving. When both have ended, both
\* report success, and the Media row and the file of M are gone.
C28_ConcurrentDeletes ==
    (/\ Ended(1, "del_tweet") /\ Ended(2, "del_tweet")
     /\ rq[1].arg # rq[2].arg
     /\ rq[1].res.status # 404 /\ rq[2].res.status # 404)
    => \A m \in rq[1].loc.media_files \cap rq[2].loc.media_files :
           TweetMediaFilter(m.id) = {}
           => /\ rq[1].res.exc = "none"
              /\ rq[2].res.exc = "none"
              /\ m \notin media
              /\ StoredFile(m) \notin files


\* C29: upload-media, create-tweet and delete-tweet issued one after the
\* other, two uploads with one file name among them. Whenever no request is
\* running, the stored file of every Media row exists.
C29_StoredFilesExist ==
    (\A p \in Procs : Free(p)) => \A m \in media : StoredFile(m) \in files

\* C30: a delete-tweet request that has ended in an error has left the store
\* as it was: the tweet, its Like rows and its TweetMedia rows, the Media rows
\* the tweet referenced and their stored files are all there.
C30_FailedDeleteKeepsStore ==
    \A p \in Procs :
        (Ended(p, "del_tweet") /\ rq[p].res.exc \notin {"none", "HTTPException"})
        => /\ \E t \in tweets : t.id = rq[p].arg
           /\ \A m \in rq[p].loc.media_files :
                  /\ m \in media
                  /\ StoredFile(m) \in files
                  /\ [tweet_id |-> rq[p].arg, media_id |-> m.id] \in tweet_media
           /\ rq[p].loc.likes \sqsubseteq likes
====
